---- MODULE Spec2Model ----
(***************************************************************************)
(* Model of server.js: an express application with express-session         *)
(* (MemoryStore), two Sequelize tables (User, ChatHistory) and bcrypt.      *)
(* A request is handled in steps: the session middleware reads the store,   *)
(* the handler runs in a later turn of the event loop and is split at the   *)
(* awaits that read or write the tables; requests in flight interleave      *)
(* between those steps.                                                     *)
(***************************************************************************)
EXTENDS Integers, Sequences, FiniteSets, TLC

VARIABLES
  users,     \* table "Users": sequence of rows, in insertion order
  userSeq,   \* last value handed out by the serial sequence of Users.id
  chats,     \* table "ChatHistories": sequence of rows, in insertion order
  chatSeq,   \* last value handed out by the serial sequence of ChatHistories.id
  sessions,  \* MemoryStore: session id -> [userId, expires]
  issued,    \* session ids that were ever stored (and sent as a cookie)
  now,       \* Date.now(), in milliseconds
  reqs       \* one record per connection: the request in flight or the last response

vars == <<users, userSeq, chats, chatSeq, sessions, issued, now, reqs>>

-----------------------------------------------------------------------------
(* Bounds of the model *)
NumProcs == 1      \* connections handled concurrently
MaxUsers == 2      \* values the Users.id sequence may hand out
MaxChats == 2      \* values the ChatHistories.id sequence may hand out
MaxSessions == 2   \* session ids that can be generated
MaxTicks == 1      \* clock advances (of one day) in Spec
MaxTTLTicks == 3   \* clock advances (of half a day) in SpecTTL
HistRows == 52     \* rows of the chat table at the start of SpecHist
HistBurst == 3     \* rows saved within one millisecond in that table
HistOther == 17    \* every HistOther-th of those rows is the other user's
MaxHistSaves == 3  \* rows saved in SpecHist
MaxHistTicks == 2  \* clock advances (of one millisecond) in SpecHist
RaceProcs == 2     \* connections handled concurrently in SpecRace
MaxRaceUsers == 3  \* values the Users.id sequence may hand out in SpecRace

(* Program constants *)
maxAge == 86400000
limit == 50

-----------------------------------------------------------------------------
(* Values *)
Undefined == "undefined"   \* a field absent from the request body
NoUser == 0                \* req.session.userId === undefined
NoSid == 0                 \* no (valid, signed) connect.sid cookie

\* a faulty variant: only an absent field counts as missing
FalsyStrict(v) == v = Undefined
\* !v on a body field
Falsy(v) == v \in {Undefined, ""}

\* validator.js isEmail, tabulated on the inputs of the model
isEmail(e) == e \in {"alice@example.com", "bob@example.com"}

\* a faulty variant: the password is stored as it came
hashPlain(password) == password
\* bcrypt.hash(password, 10): a one-way digest, tabulated on the inputs of the model
\* (the random salt is left out: equal passwords get equal digests here)
hash(password) ==
  CASE password = "pw123" -> "$2b$10$digest-of-pw123"
    [] password = "pw456" -> "$2b$10$digest-of-pw456"
    [] OTHER -> "$2b$10$digest-of-empty"

\* bcrypt.compare(data, hash): rejects when data is null/undefined
compareThrows(data) == data = Undefined
\* a faulty variant: every password is accepted
compareAlways(data, h) == TRUE
compare(data, h) == hash(data) = h

\* user-facing error strings (Tamil in the source), by the line that sends them
MsgFillAll == "fill-all-fields"
MsgEmailTaken == "email-already-used"
MsgRegisterError == "registration-error"
MsgBadCredentials == "wrong-email-or-password"
MsgLoginError == "login-error"
MsgUserNotFound == "User not found"
MsgMeError == "cannot-get-user-info"
MsgNeedBoth == "message-and-response-required"
MsgSaveError == "cannot-save-message"
MsgHistoryError == "history-error"

NoBody == [username |-> Undefined, email |-> Undefined, password |-> Undefined,
           message |-> Undefined, response |-> Undefined]
NoRes == [status |-> 0, body |-> <<>>]

\* a connection with no request in flight: route and res are the last exchange on it
Idle == [pc |-> "idle", route |-> "none", cookieId |-> NoSid, sessionID |-> NoSid,
         userId |-> NoUser, savedUserId |-> NoUser, body |-> NoBody, res |-> NoRes]

Procs == DOMAIN reqs
Free(p) == reqs[p].pc = "idle"
InFlight(route) == Cardinality({q \in Procs : reqs[q].route = route /\ ~Free(q)})

-----------------------------------------------------------------------------
(* Tables *)
\* a faulty variant: findOne never finds a row
UserByEmailNone(email) == {}
\* findOne({where: {email}}), findByPk(id)
UserByEmail(email) == {u \in 1..Len(users) : users[u].email = email}
UserByPk(id) == {u \in 1..Len(users) : users[u].id = id}
UserIds == {users[u].id : u \in 1..Len(users)}

-----------------------------------------------------------------------------
(* express-session *)
SidPool == 1..MaxSessions

\* store.get(sid): an entry whose cookie.expires <= Date.now() is deleted and not returned
Live(store, sid) == sid \in DOMAIN store /\ store[sid].expires > now

\* a faulty variant: destroy leaves the entry in place
WithoutNothing(store, sid) == store
\* store.destroy(sid), also run on an expired entry by store.get and store.touch
Without(store, sid) == [s \in DOMAIN store \ {sid} |-> store[s]]
Reap(store, sid) == IF sid \in DOMAIN store /\ ~Live(store, sid) THEN Without(store, sid) ELSE store

\* generate(): uid-safe gives an id nobody holds
HeldSids == issued \cup {reqs[q].sessionID : q \in {r \in Procs : ~Free(r)}}
CanGenerate == SidPool \ HeldSids # {}
FreshSid == CHOOSE s \in SidPool \ HeldSids : \A t \in SidPool \ HeldSids : s <= t

\* the session middleware on arrival: req.sessionID, req.session and the saved hash
Arrive(route, cookie, body) ==
  IF Live(sessions, cookie)
  THEN [pc |-> "handler", route |-> route, cookieId |-> cookie, sessionID |-> cookie,
        userId |-> sessions[cookie].userId, savedUserId |-> sessions[cookie].userId,
        body |-> body, res |-> NoRes]
  ELSE [pc |-> "handler", route |-> route, cookieId |-> cookie, sessionID |-> FreshSid,
        userId |-> NoUser, savedUserId |-> NoUser, body |-> body, res |-> NoRes]

\* requests a client may send: a route and a parsed body
Usernames == {"alice", "bob", Undefined}
Emails == {"alice@example.com", "bob@example.com", "not-an-email", Undefined}
Passwords == {"pw123", Undefined}
Attempts == {"pw123", "pw456", "", Undefined}
Texts == {"hi", ""}
Bodiless == {"logout", "me", "history", "/", "/login", "/signup", "/index.html"}
Requests ==
  {[route |-> "register", body |-> [NoBody EXCEPT !.username = u, !.email = e, !.password = w]] :
     u \in Usernames, e \in Emails, w \in Passwords}
  \cup {[route |-> "login", body |-> [NoBody EXCEPT !.email = e, !.password = w]] :
     e \in Emails, w \in Attempts}
  \cup {[route |-> "save", body |-> [NoBody EXCEPT !.message = m, !.response = t]] :
     m \in Texts, t \in Texts}
  \cup {[route |-> b, body |-> NoBody] : b \in Bodiless}

\* app.use(session({...})): a request with cookie (NoSid: none) reaches connection p
Session(p, cookie, q, maxUsers, maxChats) ==
  /\ Free(p)
  /\ cookie \in issued \cup {NoSid}
  /\ Live(sessions, cookie) \/ CanGenerate
  /\ q.route = "register" => userSeq + InFlight("register") < maxUsers
  /\ q.route = "save" => chatSeq + InFlight("save") < maxChats
  /\ reqs' = [reqs EXCEPT ![p] = Arrive(q.route, cookie, q.body)]
  /\ sessions' = Reap(sessions, cookie)
  /\ UNCHANGED <<users, userSeq, chats, chatSeq, issued, now>>

\* the res.end hook: touch(), then store.set of a modified session, else store.touch
\* of a session that came from the store; a session generated and left empty is dropped
Commit(r, userId) ==
  IF userId # r.savedUserId
  THEN [s \in DOMAIN sessions \cup {r.sessionID} |->
          IF s = r.sessionID THEN [userId |-> userId, expires |-> now + maxAge]
          ELSE sessions[s]]
  ELSE IF r.cookieId # r.sessionID THEN sessions
  ELSE IF Live(sessions, r.sessionID)
       THEN [sessions EXCEPT ![r.sessionID].expires = now + maxAge]
       ELSE Reap(sessions, r.sessionID)

\* Set-Cookie is sent exactly when the session was saved
Issue(r, userId) == IF userId # r.savedUserId THEN issued \cup {r.sessionID} ELSE issued

\* the connection after the response
Done(r, status, body) == [Idle EXCEPT !.route = r.route, !.res = [status |-> status, body |-> body]]

\* res.json / res.redirect / res.sendFile on connection p; userId is
\* req.session.userId when the response ends
Respond(p, userId, status, body) ==
  /\ reqs' = [reqs EXCEPT ![p] = Done(reqs[p], status, body)]
  /\ sessions' = Commit(reqs[p], userId)
  /\ issued' = Issue(reqs[p], userId)

\* the handler suspends at an await
Await(p, pc) ==
  /\ reqs' = [reqs EXCEPT ![p].pc = pc]
  /\ UNCHANGED <<sessions, issued>>

At(p, route, pc) == reqs[p].route = route /\ reqs[p].pc = pc

requireAuth(r) == TRUE

-----------------------------------------------------------------------------
(* POST /api/register: validation, then await User.findOne *)
Register(p) ==
  /\ At(p, "register", "handler")
  /\ LET b == reqs[p].body
     IN IF Falsy(b.username) \/ Falsy(b.email) \/ Falsy(b.password)
        THEN Respond(p, reqs[p].userId, 400, [error |-> MsgFillAll])
        ELSE IF UserByEmail(b.email) # {}
        THEN Respond(p, reqs[p].userId, 400, [error |-> MsgEmailTaken])
        ELSE Await(p, "create")
  /\ UNCHANGED <<users, userSeq, chats, chatSeq, now>>

\* User.create: model validation (isEmail) before the INSERT; the INSERT takes the
\* next id, then fails on a unique index (username, email)
UserCreateInvalid(row) == ~isEmail(row.email)
UserCreateConflict(row) ==
  \E u \in 1..Len(users) : users[u].username = row.username \/ users[u].email = row.email

\* a faulty variant: the INSERT replaces the row it conflicts with
RegisterUpsert(p) ==
  /\ At(p, "register", "create")
  /\ LET b == reqs[p].body
         row == [id |-> userSeq + 1, username |-> b.username,
                 email |-> b.email, password |-> hash(b.password)]
     IN /\ users' = IF UserCreateConflict(row)
                    THEN [u \in 1..Len(users) |->
                            IF users[u].username = row.username \/ users[u].email = row.email
                            THEN [row EXCEPT !.id = users[u].id] ELSE users[u]]
                    ELSE Append(users, row)
        /\ userSeq' = userSeq + 1
        /\ Respond(p, row.id, 200, [success |-> TRUE, redirect |-> "/index.html"])
  /\ UNCHANGED <<chats, chatSeq, now>>
\* await bcrypt.hash, await User.create, then req.session.userId = user.id
RegisterCreate(p) ==
  /\ At(p, "register", "create")
  /\ LET b == reqs[p].body
         row == [id |-> userSeq + 1, username |-> b.username,
                 email |-> b.email, password |-> hash(b.password)]
     IN IF UserCreateInvalid(row)
        THEN /\ Respond(p, reqs[p].userId, 500, [error |-> MsgRegisterError])
             /\ UNCHANGED <<users, userSeq>>
        ELSE IF UserCreateConflict(row)
        THEN /\ Respond(p, reqs[p].userId, 500, [error |-> MsgRegisterError])
             /\ userSeq' = userSeq + 1
             /\ UNCHANGED users
        ELSE /\ users' = Append(users, row)
             /\ userSeq' = userSeq + 1
             /\ Respond(p, row.id, 200, [success |-> TRUE, redirect |-> "/index.html"])
  /\ UNCHANGED <<chats, chatSeq, now>>

-----------------------------------------------------------------------------
(* POST /api/login *)
\* the outcome of the handler's try block on a body: findOne({where: {email}}) throws
\* on an undefined value; bcrypt.compare runs on the row that was found and rejects
\* undefined data; userId is the value assigned to req.session.userId (NoUser: none)
authenticate(email, password) ==
  LET found == UserByEmail(email)
  IN IF email = Undefined
     THEN [status |-> 500, body |-> [error |-> MsgLoginError], userId |-> NoUser]
     ELSE IF found = {}
     THEN [status |-> 400, body |-> [error |-> MsgBadCredentials], userId |-> NoUser]
     ELSE LET user == users[CHOOSE u \in found : TRUE]
          IN IF compareThrows(password)
             THEN [status |-> 500, body |-> [error |-> MsgLoginError], userId |-> NoUser]
             ELSE IF ~compare(password, user.password)
             THEN [status |-> 400, body |-> [error |-> MsgBadCredentials], userId |-> NoUser]
             ELSE [status |-> 200, body |-> [success |-> TRUE, redirect |-> "/index.html"],
                   userId |-> user.id]

Login(p) ==
  /\ At(p, "login", "handler")
  /\ LET o == authenticate(reqs[p].body.email, reqs[p].body.password)
     IN Respond(p, IF o.userId # NoUser THEN o.userId ELSE reqs[p].userId, o.status, o.body)
  /\ UNCHANGED <<users, userSeq, chats, chatSeq, now>>

-----------------------------------------------------------------------------
(* GET /api/logout: req.session.destroy deletes the store entry; the response is
   sent from its callback and the res.end hook finds no req.session to save *)
Logout(p) ==
  /\ At(p, "logout", "handler")
  /\ reqs' = [reqs EXCEPT ![p] = Done(reqs[p], 200, [success |-> TRUE, redirect |-> "/login"])]
  /\ sessions' = Without(sessions, reqs[p].sessionID)
  /\ UNCHANGED <<users, userSeq, chats, chatSeq, issued, now>>

-----------------------------------------------------------------------------
(* GET /api/me: findByPk(undefined) resolves to null *)
Me(p) ==
  /\ At(p, "me", "handler")
  /\ requireAuth(reqs[p])
  /\ LET found == UserByPk(reqs[p].userId)
     IN IF found = {}
        THEN Respond(p, reqs[p].userId, 404, [error |-> MsgUserNotFound])
        ELSE LET user == users[CHOOSE u \in found : TRUE]
             IN Respond(p, reqs[p].userId, 200,
                        [username |-> user.username, email |-> user.email])
  /\ UNCHANGED <<users, userSeq, chats, chatSeq, now>>

-----------------------------------------------------------------------------
(* POST /api/chat/save *)
\* ChatHistory.create: UserId is a nullable foreign key to Users.id (belongsTo);
\* an undefined UserId is stored as NULL (NoUser); timestamp defaults to NOW
ChatCreateRejected(row) == row.UserId # NoUser /\ row.UserId \notin UserIds

ChatSave(p) ==
  /\ At(p, "save", "handler")
  /\ requireAuth(reqs[p])
  /\ LET b == reqs[p].body
         row == [id |-> chatSeq + 1, message |-> b.message, response |-> b.response,
                 timestamp |-> now, UserId |-> reqs[p].userId]
     IN IF Falsy(b.message) \/ Falsy(b.response)
        THEN /\ Respond(p, reqs[p].userId, 400, [error |-> MsgNeedBoth])
             /\ UNCHANGED <<chats, chatSeq>>
        ELSE IF ChatCreateRejected(row)
        THEN /\ Respond(p, reqs[p].userId, 500, [error |-> MsgSaveError])
             /\ chatSeq' = chatSeq + 1
             /\ UNCHANGED chats
        ELSE /\ chats' = Append(chats, row)
             /\ chatSeq' = chatSeq + 1
             /\ Respond(p, reqs[p].userId, 200, [success |-> TRUE, chat |-> row])
  /\ UNCHANGED <<users, userSeq, now>>

-----------------------------------------------------------------------------
(* GET /api/chat/history *)
\* ORDER BY timestamp DESC leaves rows of equal timestamp in an order the engine
\* picks; two of them are modelled: ties by ascending id and ties by descending id
TieBreaks == {"asc", "desc"}
Before(a, b, tie) ==
  \/ a.timestamp > b.timestamp
  \/ a.timestamp = b.timestamp /\ (IF tie = "asc" THEN a.id < b.id ELSE a.id > b.id)

RECURSIVE OrderBy(_, _)
OrderBy(rows, tie) ==
  IF rows = {} THEN <<>>
  ELSE LET first == CHOOSE a \in rows : \A b \in rows \ {a} : Before(a, b, tie)
       IN <<first>> \o OrderBy(rows \ {first}, tie)

\* a faulty variant: the limit is dropped
LimitNone(rows, n) == rows
Limit(rows, n) == SubSeq(rows, 1, IF Len(rows) < n THEN Len(rows) ELSE n)


\* a faulty variant: the where clause is dropped
WhereAny(UserId) == {chats[c] : c \in 1..Len(chats)}
Where(UserId) == {chats[c] : c \in {d \in 1..Len(chats) : chats[d].UserId = UserId}}

\* findAll({where: {UserId}, order: [['timestamp', 'DESC']], limit: 50})
findAll(UserId, tie) == Limit(OrderBy(Where(UserId), tie), limit)

\* a where value of undefined makes findAll throw
ChatHistory(p, tie) ==
  /\ At(p, "history", "handler")
  /\ requireAuth(reqs[p])
  /\ IF reqs[p].userId = NoUser
     THEN Respond(p, reqs[p].userId, 500, [error |-> MsgHistoryError])
     ELSE Respond(p, reqs[p].userId, 200, findAll(reqs[p].userId, tie))
  /\ UNCHANGED <<users, userSeq, chats, chatSeq, now>>

-----------------------------------------------------------------------------
(* Pages *)
RedirectIndex == [redirect |-> "/index.html"]

\* GET /
Root(p) ==
  /\ At(p, "/", "handler")
  /\ Respond(p, reqs[p].userId, 302,
             IF reqs[p].userId # NoUser THEN RedirectIndex ELSE [redirect |-> "/login"])
  /\ UNCHANGED <<users, userSeq, chats, chatSeq, now>>

\* GET /login
LoginPage(p) ==
  /\ At(p, "/login", "handler")
  /\ IF reqs[p].userId # NoUser
     THEN Respond(p, reqs[p].userId, 302, RedirectIndex)
     ELSE Respond(p, reqs[p].userId, 200, [file |-> "login.html"])
  /\ UNCHANGED <<users, userSeq, chats, chatSeq, now>>

\* GET /signup
SignupPage(p) ==
  /\ At(p, "/signup", "handler")
  /\ IF reqs[p].userId # NoUser
     THEN Respond(p, reqs[p].userId, 302, RedirectIndex)
     ELSE Respond(p, reqs[p].userId, 200, [file |-> "signup.html"])
  /\ UNCHANGED <<users, userSeq, chats, chatSeq, now>>

\* GET /index.html
IndexHtml(p) ==
  /\ At(p, "/index.html", "handler")
  /\ requireAuth(reqs[p])
  /\ Respond(p, reqs[p].userId, 200, [file |-> "index.html"])
  /\ UNCHANGED <<users, userSeq, chats, chatSeq, now>>

-----------------------------------------------------------------------------
(* Time passes *)
Tick(d, horizon) ==
  /\ now + d <= horizon
  /\ now' = now + d
  /\ UNCHANGED <<users, userSeq, chats, chatSeq, sessions, issued, reqs>>

-----------------------------------------------------------------------------
(* The server after startServer(): empty tables, empty MemoryStore *)
Init ==
  /\ users = <<>> /\ userSeq = 0
  /\ chats = <<>> /\ chatSeq = 0
  /\ sessions = <<>> /\ issued = {}
  /\ now = 0
  /\ reqs = [p \in 1..NumProcs |-> Idle]

Cookies == {NoSid} \cup SidPool

Next ==
  \/ \E p \in Procs, c \in Cookies, q \in Requests : Session(p, c, q, MaxUsers, MaxChats)
  \/ \E p \in Procs : Register(p)
  \/ \E p \in Procs : RegisterCreate(p)
  \/ \E p \in Procs : Login(p)
  \/ \E p \in Procs : Logout(p)
  \/ \E p \in Procs : Me(p)
  \/ \E p \in Procs : ChatSave(p)
  \/ \E p \in Procs, tie \in TieBreaks : ChatHistory(p, tie)
  \/ \E p \in Procs : Root(p)
  \/ \E p \in Procs : LoginPage(p)
  \/ \E p \in Procs : SignupPage(p)
  \/ \E p \in Procs : IndexHtml(p)
  \/ Tick(maxAge, MaxTicks * maxAge)

Spec == Init /\ [][Next]_vars

-----------------------------------------------------------------------------
(* Session lifetime: one user, half-day clock steps *)
HalfDay == maxAge \div 2

TTLRequests ==
  {[route |-> "register",
    body |-> [NoBody EXCEPT !.username = "alice", !.email = "alice@example.com",
                            !.password = "pw123"]],
   [route |-> "login",
    body |-> [NoBody EXCEPT !.email = "alice@example.com", !.password = "pw123"]],
   [route |-> "me", body |-> NoBody],
   [route |-> "/", body |-> NoBody],
   [route |-> "/login", body |-> NoBody],
   [route |-> "/signup", body |-> NoBody],
   [route |-> "logout", body |-> NoBody]}

NextTTL ==
  \/ \E p \in Procs, c \in Cookies, q \in TTLRequests : Session(p, c, q, MaxUsers, MaxChats)
  \/ \E p \in Procs : Register(p)
  \/ \E p \in Procs : RegisterCreate(p)
  \/ \E p \in Procs : Login(p)
  \/ \E p \in Procs : Me(p)
  \/ \E p \in Procs : Root(p)
  \/ \E p \in Procs : LoginPage(p)
  \/ \E p \in Procs : SignupPage(p)
  \/ \E p \in Procs : Logout(p)
  \/ Tick(HalfDay, MaxTTLTicks * HalfDay)

SpecTTL == Init /\ [][NextTTL]_vars

-----------------------------------------------------------------------------
(* History of a long conversation: the server after alice and bob registered and
   HistRows rows were saved, HistBurst rows per millisecond, every HistOther-th
   row by bob and the rest by alice *)
HistUsers ==
  <<[id |-> 1, username |-> "alice", email |-> "alice@example.com", password |-> hash("pw123")],
    [id |-> 2, username |-> "bob", email |-> "bob@example.com", password |-> hash("pw123")]>>

InitHist ==
  /\ users = HistUsers /\ userSeq = 2
  /\ chats = [i \in 1..HistRows |->
                [id |-> i, message |-> "hi", response |-> "hi",
                 timestamp |-> i \div HistBurst,
                 UserId |-> IF i % HistOther = 0 THEN 2 ELSE 1]]
  /\ chatSeq = HistRows
  /\ now = HistRows \div HistBurst
  /\ sessions = [s \in {1, 2} |-> [userId |-> s, expires |-> HistRows \div HistBurst + maxAge]]
  /\ issued = {1, 2}
  /\ reqs = [p \in 1..NumProcs |-> Idle]

HistRequests ==
  {[route |-> "save", body |-> [NoBody EXCEPT !.message = "hi", !.response = "hi"]],
   [route |-> "history", body |-> NoBody]}

NextHist ==
  \/ \E p \in Procs, c \in Cookies, q \in HistRequests :
       Session(p, c, q, MaxUsers, HistRows + MaxHistSaves)
  \/ \E p \in Procs : ChatSave(p)
  \/ \E p \in Procs, tie \in TieBreaks : ChatHistory(p, tie)
  \/ Tick(1, HistRows \div HistBurst + MaxHistTicks)

SpecHist == InitHist /\ [][NextHist]_vars

-----------------------------------------------------------------------------
(* Concurrent requests: RaceProcs connections whose handlers interleave at every
   await *)
RaceRequests ==
  {[route |-> "register",
    body |-> [NoBody EXCEPT !.username = n, !.email = e, !.password = "pw123"]] :
      n \in {"alice", "bob"}, e \in {"alice@example.com", "bob@example.com"}}
  \cup {[route |-> "login", body |-> [NoBody EXCEPT !.email = e, !.password = "pw123"]] :
          e \in {"alice@example.com", "bob@example.com"}}
  \cup {[route |-> "logout", body |-> NoBody], [route |-> "me", body |-> NoBody]}

InitRace ==
  /\ users = <<>> /\ userSeq = 0
  /\ chats = <<>> /\ chatSeq = 0
  /\ sessions = <<>> /\ issued = {}
  /\ now = 0
  /\ reqs = [p \in 1..RaceProcs |-> Idle]

NextRace ==
  \/ \E p \in Procs, c \in Cookies, q \in RaceRequests : Session(p, c, q, MaxRaceUsers, MaxChats)
  \/ \E p \in Procs : Register(p)
  \/ \E p \in Procs : RegisterCreate(p)
  \/ \E p \in Procs : Login(p)
  \/ \E p \in Procs : Logout(p)
  \/ \E p \in Procs : Me(p)

SpecRace == InitRace /\ [][NextRace]_vars

-----------------------------------------------------------------------------
(* Store failures: any await on the database may reject (connection lost, query
   timeout); the rejection lands in the handler's catch block *)
Awaits(r) ==
  \/ r.route = "register" /\ r.pc = "create"
  \/ /\ r.pc = "handler"
     /\ \/ r.route \in {"login", "me", "history"}
        \/ /\ r.route = "register"
           /\ ~(Falsy(r.body.username) \/ Falsy(r.body.email) \/ Falsy(r.body.password))
        \/ r.route = "save" /\ ~(Falsy(r.body.message) \/ Falsy(r.body.response))

\* the awaited query rejects: control passes to the catch block
StoreRejects(p) ==
  /\ Awaits(reqs[p])
  /\ Await(p, "catch")
  /\ UNCHANGED <<users, userSeq, chats, chatSeq, now>>

CatchError(route) ==
  CASE route = "register" -> MsgRegisterError
    [] route = "login" -> MsgLoginError
    [] route = "me" -> MsgMeError
    [] route = "save" -> MsgSaveError
    [] route = "history" -> MsgHistoryError

\* a faulty variant: the failure is reported as the client's error
CatchClientError(p) ==
  /\ reqs[p].pc = "catch"
  /\ Respond(p, reqs[p].userId, 400, [error |-> CatchError(reqs[p].route)])
  /\ UNCHANGED <<users, userSeq, chats, chatSeq, now>>
\* catch (error) { res.status(500).json({ error: ... }) }
Catch(p) ==
  /\ reqs[p].pc = "catch"
  /\ Respond(p, reqs[p].userId, 500, [error |-> CatchError(reqs[p].route)])
  /\ UNCHANGED <<users, userSeq, chats, chatSeq, now>>

FailRequests ==
  {[route |-> "register",
    body |-> [NoBody EXCEPT !.username = n, !.email = "alice@example.com",
                            !.password = "pw123"]] : n \in {"alice", Undefined}}
  \cup {[route |-> "login",
         body |-> [NoBody EXCEPT !.email = "alice@example.com", !.password = w]] :
          w \in {"pw123", "pw456"}}
  \cup {[route |-> "save", body |-> [NoBody EXCEPT !.message = m, !.response = "hi"]] :
          m \in Texts}
  \cup {[route |-> r, body |-> NoBody] : r \in {"me", "history", "logout"}}

\* the next step of the request on connection p
Handle(p) ==
  \/ Register(p) \/ RegisterCreate(p) \/ Login(p) \/ Logout(p) \/ Me(p) \/ ChatSave(p)
  \/ \E tie \in TieBreaks : ChatHistory(p, tie)
  \/ StoreRejects(p) \/ Catch(p)

NextFail ==
  \/ \E p \in Procs, c \in Cookies, q \in FailRequests : Session(p, c, q, MaxUsers, MaxChats)
  \/ \E p \in Procs : Register(p)
  \/ \E p \in Procs : RegisterCreate(p)
  \/ \E p \in Procs : Login(p)
  \/ \E p \in Procs : Logout(p)
  \/ \E p \in Procs : Me(p)
  \/ \E p \in Procs : ChatSave(p)
  \/ \E p \in Procs, tie \in TieBreaks : ChatHistory(p, tie)
  \/ \E p \in Procs : StoreRejects(p)
  \/ \E p \in Procs : Catch(p)
  \/ Tick(maxAge, MaxTicks * maxAge)

\* every await settles, so a request in flight takes its next step
SpecFail == Init /\ [][NextFail]_vars /\ \A p \in 1..NumProcs : WF_vars(Handle(p))

-----------------------------------------------------------------------------
(* Properties *)

\* connection p takes a step; it sends its response in this step
Steps(p) == reqs'[p] # reqs[p]
Responds(p) == reqs[p].pc # "idle" /\ reqs'[p].pc = "idle"
Answer(p) == reqs'[p].res

\* no session is bound or rebound in this step
NoNewBinding ==
  \A s \in DOMAIN sessions' : s \in DOMAIN sessions /\ sessions'[s].userId = sessions[s].userId

Protected == {"me", "save", "history", "/index.html"}

\* C1: a request to a protected route that arrives without a session bound to a user
\* gets no success response and changes neither table
C1_Gated ==
  [][\A p \in Procs :
       (Responds(p) /\ reqs[p].route \in Protected /\ reqs[p].savedUserId = NoUser)
         => (Answer(p).status # 200 /\ users' = users /\ chats' = chats)]_vars

\* C2: every row of the chat table has an owner, and the owner is the id of a user row
C2_Owned ==
  \A c \in 1..Len(chats) :
    chats[c].UserId # NoUser /\ \E u \in 1..Len(users) : users[u].id = chats[c].UserId

\* C3: a history request on a session bound to a user is answered with rows of that
\* user only, and a saved row is owned by whatever the saving request's session holds
C3_Isolation ==
  [][\A p \in Procs :
       /\ (Responds(p) /\ reqs[p].route = "history" /\ reqs[p].userId # NoUser)
            => /\ Answer(p).status = 200
               /\ \A i \in 1..Len(Answer(p).body) : Answer(p).body[i].UserId = reqs[p].userId
       /\ (Responds(p) /\ reqs[p].route = "save" /\ Len(chats') > Len(chats))
            => chats'[Len(chats')].UserId = reqs[p].userId]_vars

\* a history was answered with rows while another user owns a row too
C3_Witness ==
  \E p \in Procs :
    /\ reqs[p].route = "history" /\ reqs[p].res.status = 200
    /\ Len(reqs[p].res.body) > 0
    /\ \E c \in 1..Len(chats) :
         chats[c].UserId # NoUser /\ chats[c].UserId # reqs[p].res.body[1].UserId

\* C4: a login for an email no user has and a login for an email a user has, with a
\* password that does not match that user's hash (or with none), get the same answer
\* and assign no user to the session
Mismatch(w, h) == w = Undefined \/ hash(w) # h
C4_Indistinguishable ==
  \A known \in Emails \ {Undefined}, unknown \in Emails \ {Undefined}, w \in Attempts :
    ( /\ \E u \in 1..Len(users) : users[u].email = known /\ Mismatch(w, users[u].password)
      /\ \A u \in 1..Len(users) : users[u].email # unknown )
    => /\ authenticate(known, w).status = authenticate(unknown, w).status
       /\ authenticate(known, w).body = authenticate(unknown, w).body
       /\ authenticate(known, w).userId = NoUser
       /\ authenticate(unknown, w).userId = NoUser

\* C5 as claimed: a registration whose email a user already has is answered 400 with
\* the duplicate-email error, whatever the other fields, and changes nothing
EmailTaken(e) == \E u \in 1..Len(users) : users[u].email = e
Missing(v) == v = Undefined \/ v = ""
C5_AnyBody ==
  [][\A p \in Procs :
       (Steps(p) /\ reqs[p].route = "register" /\ reqs[p].pc = "handler"
          /\ EmailTaken(reqs[p].body.email))
         => /\ Responds(p)
            /\ Answer(p) = [status |-> 400, body |-> [error |-> MsgEmailTaken]]
            /\ users' = users /\ NoNewBinding]_vars

\* C5 amended: with username and password present the answer is 400 duplicate-email;
\* with one of them missing it is the 400 of the validation; nothing changes either way
C5_Duplicate ==
  [][\A p \in Procs :
       (Steps(p) /\ reqs[p].route = "register" /\ reqs[p].pc = "handler"
          /\ EmailTaken(reqs[p].body.email))
         => /\ Responds(p)
            /\ Answer(p) = [status |-> 400,
                            body |-> [error |-> IF Missing(reqs[p].body.username)
                                                   \/ Missing(reqs[p].body.password)
                                                THEN MsgFillAll ELSE MsgEmailTaken]]
            /\ users' = users /\ userSeq' = userSeq /\ NoNewBinding]_vars

\* a registration was answered with the duplicate-email error
C5_Witness ==
  \E p \in Procs :
    /\ reqs[p].route = "register"
    /\ reqs[p].res = [status |-> 400, body |-> [error |-> MsgEmailTaken]]
    /\ Len(users) > 0

\* C6: a registration with a field missing or a malformed email is answered 400,
\* persists no user and binds no session
C6_Validation ==
  [][\A p \in Procs :
       (Responds(p) /\ reqs[p].route = "register"
          /\ (\/ Missing(reqs[p].body.username) \/ Missing(reqs[p].body.email)
              \/ Missing(reqs[p].body.password) \/ ~isEmail(reqs[p].body.email)))
         => /\ Answer(p).status = 400
            /\ users' = users /\ NoNewBinding]_vars

\* C7: a stored session expires one day after the successful login or registration
\* that stored it, no other step moves that instant, and a request resolves to the
\* session's user exactly while the instant lies ahead
Binds(p, s) ==
  /\ Responds(p) /\ reqs[p].route \in {"login", "register"}
  /\ Answer(p).status = 200 /\ reqs[p].sessionID = s
C7_FixedTTL ==
  [][/\ \A s \in DOMAIN sessions' :
          IF \E p \in Procs : Binds(p, s)
          THEN sessions'[s].expires = now + maxAge
          ELSE s \in DOMAIN sessions /\ sessions'[s].expires = sessions[s].expires
     /\ \A p \in Procs :
          (reqs[p].pc = "idle" /\ reqs'[p].pc = "handler"
             /\ reqs'[p].cookieId \in DOMAIN sessions)
            => reqs'[p].userId =
                 IF now < sessions[reqs'[p].cookieId].expires
                 THEN sessions[reqs'[p].cookieId].userId ELSE NoUser]_vars

\* C8: a logout request whose cookie names a live store entry is handled on that
\* session; logout answers with success, leaves no store entry for its session and
\* changes nothing else; without a stored session it changes nothing at all
C8_Logout ==
  [][\A p \in Procs :
       /\ (reqs[p].pc = "idle" /\ reqs'[p].pc = "handler" /\ reqs'[p].route = "logout"
             /\ reqs'[p].cookieId \in DOMAIN sessions
             /\ sessions[reqs'[p].cookieId].expires > now)
            => reqs'[p].sessionID = reqs'[p].cookieId
       /\ (Steps(p) /\ reqs[p].route = "logout" /\ reqs[p].pc = "handler")
            => /\ Responds(p)
               /\ Answer(p) = [status |-> 200,
                               body |-> [success |-> TRUE, redirect |-> "/login"]]
               /\ DOMAIN sessions' = DOMAIN sessions \ {reqs[p].sessionID}
               /\ \A s \in DOMAIN sessions' : sessions'[s] = sessions[s]
               /\ users' = users /\ chats' = chats /\ issued' = issued]_vars

\* a logout was answered and a session id that was handed out is gone from the store
\* before any session could expire
C8_Witness ==
  \E p \in Procs :
    /\ reqs[p].route = "logout" /\ reqs[p].res.status = 200
    /\ now = 0
    /\ \E s \in issued : s \notin DOMAIN sessions

Owned(UserId) == {c \in 1..Len(chats) : chats[c].UserId = UserId}
C10_Recent ==
  [][\A p \in Procs :
       (Responds(p) /\ reqs[p].route = "history" /\ reqs[p].userId # NoUser)
         => LET out == Answer(p).body
                ids == {out[i].id : i \in 1..Len(out)}
                mine == Owned(reqs[p].userId)
            IN /\ Len(out) <= 50
               /\ Len(out) = IF Cardinality(mine) < 50 THEN Cardinality(mine) ELSE 50
               /\ Cardinality(ids) = Len(out)
               /\ \A i \in 1..Len(out) : \E c \in mine : chats[c] = out[i]
               /\ \A i \in 1..Len(out), k \in 1..Len(out) :
                    i < k => out[i].timestamp >= out[k].timestamp
               /\ \A c \in mine, i \in 1..Len(out) :
                    chats[c].id \notin ids => chats[c].timestamp <= out[i].timestamp]_vars

\* a history of 50 rows was answered to a user who owns more than 50
C10_Witness ==
  \E p \in Procs :
    /\ reqs[p].route = "history" /\ reqs[p].res.status = 200
    /\ Len(reqs[p].res.body) = 50
    /\ Cardinality(Owned(reqs[p].res.body[1].UserId)) > 50

\* C11 as claimed: a registration with all fields present and a valid email no user
\* has stores one new user with an unused id and the digest of the password, binds
\* the request's session to that id and answers with success
UsernameTaken(n) == \E u \in 1..Len(users) : users[u].username = n
Registered(p) ==
  /\ Responds(p)
  /\ Answer(p) = [status |-> 200, body |-> [success |-> TRUE, redirect |-> "/index.html"]]
  /\ Len(users') = Len(users) + 1
  /\ SubSeq(users', 1, Len(users)) = users
  /\ LET user == users'[Len(users')]
     IN /\ \A u \in 1..Len(users) : users[u].id # user.id
        /\ user.username = reqs[p].body.username
        /\ user.email = reqs[p].body.email
        /\ user.password # reqs[p].body.password
        /\ compare(reqs[p].body.password, user.password)
        /\ reqs[p].sessionID \in DOMAIN sessions'
        /\ sessions'[reqs[p].sessionID].userId = user.id
Complete(b) == ~Missing(b.username) /\ ~Missing(b.email) /\ ~Missing(b.password)
C11_AnyUsername ==
  [][\A p \in Procs :
       (Steps(p) /\ reqs[p].route = "register" /\ Complete(reqs[p].body)
          /\ isEmail(reqs[p].body.email) /\ ~EmailTaken(reqs[p].body.email))
         => IF reqs[p].pc = "handler" THEN reqs'[p].pc = "create" ELSE Registered(p)]_vars

\* C11 amended: the same, for a username no user has either
C11_Register ==
  [][\A p \in Procs :
       (Steps(p) /\ reqs[p].route = "register" /\ Complete(reqs[p].body)
          /\ isEmail(reqs[p].body.email) /\ ~EmailTaken(reqs[p].body.email)
          /\ ~UsernameTaken(reqs[p].body.username))
         => IF reqs[p].pc = "handler" THEN reqs'[p].pc = "create" ELSE Registered(p)]_vars

\* a second user was registered and the session of that request is bound to it
C11_Witness ==
  \E p \in Procs :
    /\ reqs[p].route = "register" /\ reqs[p].res.status = 200
    /\ Len(users) = 2
    /\ \E s \in DOMAIN sessions : sessions[s].userId = users[2].id

\* C12: with registrations interleaving between lookup and insert, no two users share
\* an email or a username, and a registration turned down because its email or its
\* username is taken is answered 400 with the duplicate error, not 500
UniqueUsers(table) ==
  \A u, v \in 1..Len(table) :
    u # v => /\ table[u].email # table[v].email
             /\ table[u].username # table[v].username
             /\ table[u].id # table[v].id
C12_Duplicate400 ==
  [][/\ UniqueUsers(users')
     /\ \A p \in Procs :
          (Responds(p) /\ reqs[p].route = "register" /\ Complete(reqs[p].body)
             /\ (EmailTaken(reqs[p].body.email) \/ UsernameTaken(reqs[p].body.username)))
            => Answer(p) = [status |-> 400, body |-> [error |-> MsgEmailTaken]]]_vars

\* C13: a token that was handed out and no longer resolves (its session destroyed by
\* logout, or expired) never resolves again, whatever request was in flight with it
Resolves(store, sid, time) == sid \in DOMAIN store /\ store[sid].expires > time
C13_Terminal ==
  [][\A s \in issued : ~Resolves(sessions, s, now) => ~Resolves(sessions', s, now')]_vars

\* C14: a step binds a session to user u only as the success response of a
\* registration that created u or of a login with u's email and a password whose
\* digest is u's stored one; a login or registration answered 400 or 500 leaves
\* every session's binding as it was
Bound(store, sid, time) == IF Resolves(store, sid, time) THEN store[sid].userId ELSE NoUser
Created(p, u) ==
  /\ reqs[p].route = "register"
  /\ Len(users') = Len(users) + 1
  /\ users'[Len(users')].id = u
  /\ \A v \in 1..Len(users) : users[v].id # u
Authenticated(p, u) ==
  /\ reqs[p].route = "login"
  /\ \E v \in 1..Len(users) :
       /\ users[v].id = u
       /\ users[v].email = reqs[p].body.email
       /\ reqs[p].body.password # Undefined
       /\ hash(reqs[p].body.password) = users[v].password
C14_Binding ==
  [][/\ \A s \in SidPool :
          LET u == Bound(sessions', s, now')
          IN (u # NoUser /\ u # Bound(sessions, s, now))
               => \E p \in Procs :
                    /\ Responds(p) /\ reqs[p].sessionID = s /\ Answer(p).status = 200
                    /\ Created(p, u) \/ Authenticated(p, u)
     /\ \A p \in Procs :
          (Responds(p) /\ reqs[p].route \in {"login", "register"}
             /\ Answer(p).status \in {400, 500})
            => \A s \in SidPool : Bound(sessions', s, now') = Bound(sessions, s, now)]_vars

\* two sessions are bound to the same user, so one of them by a login, and a login
\* has just been answered with success
C14_Witness ==
  /\ \E s, t \in DOMAIN sessions :
       s # t /\ sessions[s].userId = sessions[t].userId /\ sessions[s].userId # NoUser
  /\ \E p \in Procs : reqs[p].route = "login" /\ reqs[p].res.status = 200

\* C15: a request whose store operation failed is answered once, with status 500;
\* no step of a request other than a success response changes the users, the chat
\* records or a session's binding, so such a request leaves them as they were before
\* it; a response is sent only by a request in flight, which ends it; and every
\* request in flight is eventually answered
Unanswered(p) == reqs[p].pc # "idle"
C15_Contained ==
  /\ [][\A p \in Procs :
          /\ (Steps(p) /\ reqs[p].pc = "catch")
               => Responds(p) /\ Answer(p).status = 500
          /\ (Steps(p) /\ ~(Responds(p) /\ Answer(p).status = 200))
               => /\ users' = users /\ chats' = chats
                  /\ \A s \in SidPool : Bound(sessions', s, now') = Bound(sessions, s, now)
          /\ (Answer(p) # reqs[p].res /\ Answer(p) # NoRes) => Responds(p)]_vars
  /\ \A p \in 1..NumProcs : Unanswered(p) ~> ~Unanswered(p)

\* a chat save whose ChatHistory.create failed was answered 500 and no row is stored,
\* on a session that is bound to a user
C15_Witness ==
  /\ \E p \in Procs :
       /\ reqs[p].route = "save"
       /\ reqs[p].res = [status |-> 500, body |-> [error |-> MsgSaveError]]
  /\ chats = <<>> /\ chatSeq = 0
  /\ \E s \in DOMAIN sessions : sessions[s].userId # NoUser

\* C16: every step leaves the stored users and the stored chat records in place,
\* at most appending rows; a step of a login, logout, /api/me, /api/chat/history or
\* page request changes neither table, a step of a registration leaves the chat
\* records and a step of a chat save leaves the users unchanged
Extends(old, new) == Len(new) >= Len(old) /\ SubSeq(new, 1, Len(old)) = old
RouteOf(p) == IF reqs[p].pc = "idle" THEN reqs'[p].route ELSE reqs[p].route
C16_AppendOnly ==
  [][/\ Extends(users, users') /\ Extends(chats, chats')
     /\ \A p \in Procs :
          Steps(p) => /\ RouteOf(p) # "register" => users' = users
                      /\ RouteOf(p) # "save" => chats' = chats]_vars

\* both tables hold two rows and a login has just been answered
C16_Witness ==
  /\ Len(users) = 2 /\ Len(chats) = 2
  /\ \E p \in Procs : reqs[p].route = "login" /\ reqs[p].res.status = 200

\* C17: the session of a request is the one its cookie resolves to, none when that
\* session is expired or destroyed; GET / answers with a redirect to /index.html
\* when that session is bound to a user and to /login otherwise, GET /login and GET
\* /signup with the same redirect when it is bound and with their page otherwise,
\* and no step of these requests changes a session that resolves or a table
Pages == {"/", "/login", "/signup"}
PageFile(route) == IF route = "/login" THEN "login.html" ELSE "signup.html"
SameSessions ==
  \A s \in SidPool :
    /\ Resolves(sessions', s, now') = Resolves(sessions, s, now)
    /\ Resolves(sessions, s, now) => sessions'[s] = sessions[s]
Redirects(p) ==
  /\ (reqs[p].pc = "idle" /\ reqs'[p].route \in Pages)
       => reqs'[p].userId = Bound(sessions, reqs'[p].cookieId, now)
  /\ (Responds(p) /\ reqs[p].route \in Pages)
       => Answer(p) =
            IF reqs[p].userId # NoUser
            THEN [status |-> 302, body |-> [redirect |-> "/index.html"]]
            ELSE IF reqs[p].route = "/"
                 THEN [status |-> 302, body |-> [redirect |-> "/login"]]
                 ELSE [status |-> 200, body |-> [file |-> PageFile(reqs[p].route)]]
C17_Pages ==
  [][\A p \in Procs :
       /\ Redirects(p)
       /\ (Steps(p) /\ RouteOf(p) \in Pages)
            => SameSessions /\ users' = users /\ chats' = chats]_vars

====
